---- MODULE Spec2Model ----
(***************************************************************************)
(* Admin backend of the saloon appointment service (src/server.js, the     *)
(* serverless revision, lines 204-499): cookie session gate, login and     *)
(* logout, lazily cached storage connection, and the accept / reject /     *)
(* done handlers with the three status listings.                           *)
(*                                                                         *)
(* Every request is one action: the handler runs from the gate to the      *)
(* response, and its single store operation is atomic.  The variable resp  *)
(* holds the request just served together with its response; steps of the  *)
(* environment reset it.  Spec is the server with all its routes, clients  *)
(* and storage failures; SpecArchive is the server on a collection that    *)
(* already holds RecentLimit completed appointments; SpecAgenda is the     *)
(* server with an appointment book over two days; SpecRace follows an      *)
(* accept and a reject through their awaits, in every interleaving.        *)
(***************************************************************************)
EXTENDS Integers, Sequences, FiniteSets, TLC

VARIABLES store, fillers, nextId, now, jar, cachedDb, readyState, dbUp, resp,
          flight

vars ==
  <<store, fillers, nextId, now, jar, cachedDb, readyState, dbUp, resp, flight>>

dbVars == <<cachedDb, readyState, dbUp>>

(***************************************************************************)
(* Bounds and program constants                                            *)
(***************************************************************************)
\* appointments that requests may name (created, accepted, rejected, ...)
NumActive == 2

\* browsers / HTTP clients
NumClients == 1

\* .limit(50) of GET /api/recent-appointments
RecentLimit == 50

Clients == 1..NumClients

ActiveIds == 1..NumActive

\* ids of appointments completed long ago; no request of the model names
\* them, so the variable fillers (how many of them the collection holds)
\* stands for their documents
FillerIds == (NumActive + 1)..(NumActive + RecentLimit)

AllIds == ActiveIds \cup FillerIds

\* req.params.id: a well-formed object id, or 0 for a string that is none
ReqIds == {0} \cup ActiveIds

\* value of req.cookies.isLoggedIn ("absent" is undefined)
CookieValues == {"absent", "true", "TRUE"}

\* clock value of the initial state: the fillers were created at 1..RecentLimit
StartTime == RecentLimit + 1

\* creation time of a request that is already waiting in the initial state:
\* before the oldest filler, or in the same millisecond
OldTimes == {0, 1}

\* (date, time) of a submitted appointment
Slots == {<<1, "10:00">>}

\* the time strings of the appointment book: the schema takes any string, and
\* a time slot is written with or without a leading zero
Times == {"09:30", "10:00", "9:00"}

\* (date, time) of the appointments of a book that spans two days
AgendaSlots == {1, 2} \X Times

(***************************************************************************)
(* Appointment documents (appointmentSchema)                               *)
(***************************************************************************)
StatusEnum == {"pending", "accepted", "done"}

NoDoc ==
  [status |-> "none", createdAt |-> 0, date |-> 0, time |-> "", name |-> ""]

\* schema defaults: status 'pending', createdAt Date.now; the field name
\* stands for the four required strings name, email, phone and service
NewDoc(slot, t) ==
  [status |-> "pending", createdAt |-> t, date |-> slot[1], time |-> slot[2],
   name |-> "customer"]

FillerDoc(id) ==
  [status |-> "done", createdAt |-> id - NumActive, date |-> 1, time |-> "10:00",
   name |-> "customer"]

Exists(st, id) == id \in DOMAIN st /\ st[id] # NoDoc

\* the whole appointments collection
Collection(st, n) ==
  [id \in AllIds |->
     IF id \in ActiveIds THEN st[id]
     ELSE IF id - NumActive <= n THEN FillerDoc(id) ELSE NoDoc]

(***************************************************************************)
(* Session gate and credentials                                            *)
(***************************************************************************)
requireAuth_Loose(cookie) == cookie # "absent"

\* requireAuth: next() iff req.cookies.isLoggedIn === 'true'
requireAuth(cookie) == cookie = "true"

ADMIN_USERS ==
  << [username |-> "admin1", password |-> "password1"],
     [username |-> "admin2", password |-> "password2"] >>

\* credentials a client may post
LoginInputs ==
  { <<"admin1", "password1">>, <<"admin2", "password2">>,
    <<"admin1", "password2">>, <<"Admin1", "password1">>, <<"admin2", "">> }

validAdmin_UserOnly(username, password) ==
  \E i \in DOMAIN ADMIN_USERS : ADMIN_USERS[i].username = username

\* ADMIN_USERS.find(admin => admin.username === username && admin.password === password)
validAdmin(username, password) ==
  \E i \in DOMAIN ADMIN_USERS :
     ADMIN_USERS[i].username = username /\ ADMIN_USERS[i].password = password

(***************************************************************************)
(* Storage connection                                                      *)
(***************************************************************************)
\* connectToDatabase: reuse the cached handle when it is set and the
\* connection is ready (readyState 1); otherwise one mongoose.connect, which
\* succeeds iff the server is reachable, and throws otherwise
connectToDatabase_NoReuse(cached, rs, up) ==
  IF up
    THEN [ok |-> TRUE, cachedDb |-> TRUE, readyState |-> 1, connects |-> 1]
    ELSE [ok |-> FALSE, cachedDb |-> cached, readyState |-> 0, connects |-> 1]

connectToDatabase(cached, rs, up) ==
  IF cached /\ rs = 1
    THEN [ok |-> TRUE, cachedDb |-> cached, readyState |-> rs, connects |-> 0]
    ELSE IF up
      THEN [ok |-> TRUE, cachedDb |-> TRUE, readyState |-> 1, connects |-> 1]
      ELSE [ok |-> FALSE, cachedDb |-> cached, readyState |-> 0, connects |-> 1]

(***************************************************************************)
(* Store operations of the Appointment model                               *)
(***************************************************************************)
\* casting req.params.id to an object id throws for a malformed string
CastObjectId(id) == id \in AllIds

findByIdAndUpdate_Old(st, id, status) ==
  IF Exists(st, id)
    THEN [doc |-> st[id], store |-> [st EXCEPT ![id].status = status]]
    ELSE [doc |-> NoDoc, store |-> st]

findByIdAndUpdate_Upsert(st, id, status) ==
  LET d == IF Exists(st, id) THEN [st[id] EXCEPT !.status = status]
                             ELSE [NoDoc EXCEPT !.status = status]
  IN  [doc |-> d, store |-> [st EXCEPT ![id] = d]]

findByIdAndUpdate_Replace(st, id, status) ==
  IF Exists(st, id)
    THEN LET d == [NoDoc EXCEPT !.status = status]
         IN  [doc |-> d, store |-> [st EXCEPT ![id] = d]]
    ELSE [doc |-> NoDoc, store |-> st]

\* Appointment.findByIdAndUpdate(id, { status }, { new: true })
findByIdAndUpdate(st, id, status) ==
  IF Exists(st, id)
    THEN LET d == [st[id] EXCEPT !.status = status]
         IN  [doc |-> d, store |-> [st EXCEPT ![id] = d]]
    ELSE [doc |-> NoDoc, store |-> st]

findByIdAndDelete_MarkRejected(st, id) ==
  IF Exists(st, id)
    THEN [doc |-> st[id], store |-> [st EXCEPT ![id].status = "rejected"]]
    ELSE [doc |-> NoDoc, store |-> st]

findByIdAndDelete_PendingOnly(st, id) ==
  IF Exists(st, id) /\ st[id].status = "pending"
    THEN [doc |-> st[id], store |-> [st EXCEPT ![id] = NoDoc]]
    ELSE [doc |-> NoDoc, store |-> st]

\* Appointment.findByIdAndDelete(id)
findByIdAndDelete(st, id) ==
  IF Exists(st, id)
    THEN [doc |-> st[id], store |-> [st EXCEPT ![id] = NoDoc]]
    ELSE [doc |-> NoDoc, store |-> st]

find_All(st, status) == {id \in DOMAIN st : st[id] # NoDoc}

\* Appointment.find({ status })
find(st, status) == {id \in DOMAIN st : st[id].status = status}

\* a sort places a before b; tb decides between records with equal keys,
\* whose relative order the store leaves open
TieBreaks == {"asc", "desc"}

Tie(a, b, tb) == IF tb = "asc" THEN a < b ELSE a > b

byCreatedDesc_Asc(st, a, b, tb) ==
  \/ st[a].createdAt < st[b].createdAt
  \/ st[a].createdAt = st[b].createdAt /\ Tie(a, b, tb)

\* .sort({ createdAt: -1 })
byCreatedDesc(st, a, b, tb) ==
  \/ st[a].createdAt > st[b].createdAt
  \/ st[a].createdAt = st[b].createdAt /\ Tie(a, b, tb)

\* the UTF-8 code units of a time string ('0' is 48, '9' is 57, ':' is 58)
CodeUnits(t) ==
  CASE t = "09:30" -> <<48, 57, 58, 51, 48>>
    [] t = "10:00" -> <<49, 48, 58, 48, 48>>
    [] t = "9:00"  -> <<57, 58, 48, 48>>
    [] OTHER       -> <<>>

\* time is a String field: the store orders strings by their code units, the
\* first differing unit deciding and a proper prefix coming first
StringLess(a, b) ==
  LET n    == IF Len(a) < Len(b) THEN Len(a) ELSE Len(b)
      diff == {i \in 1..n : a[i] # b[i]}
  IN  IF diff = {} THEN Len(a) < Len(b)
      ELSE LET k == CHOOSE i \in diff : \A m \in diff : i <= m
           IN  a[k] < b[k]

\* .sort({ date: 1, time: 1 })
byDateTime(st, a, b, tb) ==
  \/ st[a].date < st[b].date
  \/ /\ st[a].date = st[b].date
     /\ StringLess(CodeUnits(st[a].time), CodeUnits(st[b].time))
  \/ st[a].date = st[b].date /\ st[a].time = st[b].time /\ Tie(a, b, tb)

\* the ids of S in the order given by the strict total order before (a set
\* of pairs): the id with k ids before it comes at position k + 1
SortIds(S, before) ==
  LET pos == {<<d, Cardinality({e \in S : <<e, d>> \in before}) + 1>> : d \in S}
  IN  [i \in 1..Cardinality(S) |-> (CHOOSE q \in pos : q[2] = i)[1]]

limit_None(seq, n) == seq

\* .limit(n)
limit(seq, n) == IF Len(seq) <= n THEN seq ELSE SubSeq(seq, 1, n)

Range(seq) == {seq[i] : i \in DOMAIN seq}

(***************************************************************************)
(* Requests and responses                                                  *)
(***************************************************************************)
PageRoutes ==
  {"/home", "/see-requests", "/see-appointments", "/see-recent-appointments"}

ListRoutes == {"/api/requests", "/api/appointments", "/api/recent-appointments"}

MutateRoutes ==
  {"/api/requests/:id/accept", "/api/requests/:id/reject", "/api/appointments/:id/done"}

ProtectedRoutes == PageRoutes \cup ListRoutes \cup MutateRoutes

NoResp ==
  [route |-> "none", client |-> 0, cookie |-> "absent", id |-> 0,
   username |-> "", password |-> "",
   code |-> 0, location |-> "", setCookie |-> "none", payload |-> "",
   body |-> <<>>, appointment |-> NoDoc, prior |-> "none",
   connects |-> 0, handler |-> FALSE]

Req(route, c, cookie, id) ==
  [NoResp EXCEPT !.route = route, !.client = c, !.cookie = cookie, !.id = id]

\* res.redirect('/login')
Redirect(rq, to) == [rq EXCEPT !.code = 302, !.location = to]

\* res.status(500).json({ error }) of ensureDbConnection
ConnFailed(rq) ==
  [rq EXCEPT !.code = 500, !.payload = "Database connection failed", !.connects = 1]

\* res.status(500).json({ error }) of a handler's catch block
Failed(rq, msg) == [rq EXCEPT !.handler = TRUE, !.code = 500, !.payload = msg]

\* does the store operation of a handler throw: the server is unreachable, or
\* the id does not cast to an object id
Throws(id) == ~dbUp \/ ~CastObjectId(id)

cookieJar_KeepOnClear(j, c, setCookie) ==
  IF setCookie = "set" THEN [j EXCEPT ![c] = "true"] ELSE j

\* the client's cookie store after a response: res.cookie('isLoggedIn','true')
\* stores the flag, res.clearCookie('isLoggedIn') removes it
cookieJar(j, c, setCookie) ==
  CASE setCookie = "set"   -> [j EXCEPT ![c] = "true"]
    [] setCookie = "clear" -> [j EXCEPT ![c] = "absent"]
    [] OTHER               -> j

\* a request on its way through the server: where it stands (idle: not sent;
\* auth: past requireAuth; handler: past ensureDbConnection; stored: its
\* store operation has returned or thrown; replied), what its store
\* operation returned, the place of that operation among the others, and
\* whether another request was under way when it ran
IdleFlight ==
  [id |-> 0, pc |-> "idle", connects |-> 0, threw |-> FALSE, doc |-> NoDoc,
   prior |-> "none", order |-> 0, met |-> FALSE, code |-> 0]

\* the routes whose requests are followed step by step
RaceRoutes == {"/api/requests/:id/accept", "/api/requests/:id/reject"}

NoFlights == [route \in RaceRoutes |-> IdleFlight]

(***************************************************************************)
(* Initial states                                                          *)
(***************************************************************************)
\* The first active id is free or is a request that has been waiting for a
\* long time.  The process was started directly (connected, handle cached)
\* or imported by a serverless runtime (nothing cached yet).
Init ==
  /\ fillers = 0
  /\ \E old \in {-1, 0} :
       /\ store = [id \in ActiveIds |->
                     IF id = 1 /\ old >= 0 THEN NewDoc(<<1, "10:00">>, old)
                                           ELSE NoDoc]
       /\ nextId = IF old >= 0 THEN 2 ELSE 1
  /\ now = StartTime
  /\ jar = [c \in Clients |-> "absent"]
  /\ \/ cachedDb = TRUE /\ readyState = 1 /\ dbUp = TRUE
     \/ cachedDb = FALSE /\ readyState = 0 /\ dbUp \in BOOLEAN
  /\ resp = NoResp
  /\ flight = NoFlights

(***************************************************************************)
(* Environment                                                             *)
(***************************************************************************)
\* the public submission service stores a new request under a fresh id,
\* in the same millisecond as the previous one (adv = 0) or later
CreateAppointment(slot, adv) ==
  /\ nextId <= NumActive
  /\ dbUp
  /\ now' = now + adv
  /\ store' = [store EXCEPT ![nextId] = NewDoc(slot, now')]
  /\ nextId' = nextId + 1
  /\ resp' = NoResp
  /\ UNCHANGED <<fillers, flight, jar, dbVars>>

\* the storage server becomes unreachable; the driver may not have noticed
DbDown ==
  /\ dbUp
  /\ dbUp' = FALSE
  /\ \E rs \in {readyState, 0} : readyState' = rs
  /\ resp' = NoResp
  /\ UNCHANGED <<store, fillers, flight, nextId, now, jar, cachedDb>>

DbUp ==
  /\ ~dbUp
  /\ dbUp' = TRUE
  /\ readyState' = 0
  /\ resp' = NoResp
  /\ UNCHANGED <<store, fillers, flight, nextId, now, jar, cachedDb>>

\* maxAge: the browser discards the cookie 24 hours after it was issued
ExpireCookie(c) ==
  /\ jar[c] = "true"
  /\ jar' = [jar EXCEPT ![c] = "absent"]
  /\ resp' = NoResp
  /\ UNCHANGED <<store, fillers, flight, nextId, now, dbVars>>

\* the response has left the server and the client has read it: the server
\* waits for the next request
EndResponse ==
  /\ resp # NoResp
  /\ resp' = NoResp
  /\ UNCHANGED <<store, fillers, flight, nextId, now, jar, dbVars>>

(***************************************************************************)
(* Routes without storage                                                  *)
(***************************************************************************)
\* app.get('/login')
GetLogin(c, cookie) ==
  LET rq == Req("GET /login", c, cookie, 0)
  IN  /\ resp' = IF cookie = "true"
                   THEN Redirect(rq, "/home")
                   ELSE [rq EXCEPT !.handler = TRUE, !.code = 200, !.payload = "page"]
      /\ UNCHANGED <<store, fillers, flight, nextId, now, jar, dbVars>>

\* app.get('/home' | '/see-requests' | '/see-appointments' |
\*         '/see-recent-appointments', requireAuth, sendFile)
GetPage(route, c, cookie) ==
  LET rq == Req(route, c, cookie, 0)
  IN  /\ resp' = IF requireAuth(cookie)
                   THEN [rq EXCEPT !.handler = TRUE, !.code = 200, !.payload = "page"]
                   ELSE Redirect(rq, "/login")
      /\ UNCHANGED <<store, fillers, flight, nextId, now, jar, dbVars>>

\* app.post('/logout')
PostLogout(c) ==
  LET rq == Req("/logout", c, jar[c], 0)
  IN  /\ resp' = [rq EXCEPT !.handler = TRUE, !.code = 200, !.payload = "success",
                            !.setCookie = "clear"]
      /\ jar' = cookieJar(jar, c, "clear")
      /\ UNCHANGED <<store, fillers, flight, nextId, now, dbVars>>

\* app.post('/login', ensureDbConnection, ...)
PostLogin(c, username, password) ==
  LET rq   == [Req("/login", c, jar[c], 0) EXCEPT
                 !.username = username, !.password = password]
      conn == connectToDatabase(cachedDb, readyState, dbUp)
      ok   == validAdmin(username, password)
      set  == IF conn.ok /\ ok THEN "set" ELSE "none"
  IN  /\ cachedDb' = conn.cachedDb
      /\ readyState' = conn.readyState
      /\ resp' = IF ~conn.ok THEN ConnFailed(rq)
                 ELSE IF ok
                   THEN [rq EXCEPT !.handler = TRUE, !.connects = conn.connects,
                                   !.code = 200, !.payload = "success",
                                   !.setCookie = "set"]
                   ELSE [rq EXCEPT !.handler = TRUE, !.connects = conn.connects,
                                   !.code = 401, !.payload = "Invalid credentials"]
      /\ jar' = cookieJar(jar, c, set)
      /\ UNCHANGED <<store, fillers, flight, nextId, now, dbUp>>

(***************************************************************************)
(* API routes: requireAuth, ensureDbConnection, handler                    *)
(***************************************************************************)
\* the response of accept / reject / done once the store operation returned;
\* prior notes the status the record had when the operation found it
Outcome(rq, r, withDoc, prior) ==
  IF r.doc = NoDoc
    THEN [rq EXCEPT !.handler = TRUE, !.code = 404, !.payload = "Appointment not found"]
    ELSE [rq EXCEPT !.handler = TRUE, !.code = 200, !.payload = "success",
                    !.appointment = IF withDoc THEN r.doc ELSE NoDoc,
                    !.prior = prior]

\* res.json(list)
Listing(rq, ids) ==
  [rq EXCEPT !.handler = TRUE, !.code = 200, !.payload = "list", !.body = ids]

\* app.post('/api/requests/:id/accept')
Accept(c, cookie, id) ==
  LET rq   == Req("/api/requests/:id/accept", c, cookie, id)
      conn == connectToDatabase(cachedDb, readyState, dbUp)
      in   == [rq EXCEPT !.connects = conn.connects]
      r    == findByIdAndUpdate(store, id, "accepted")
  IN  /\ UNCHANGED <<fillers, flight, nextId, now, jar, dbUp>>
      /\ IF ~requireAuth(cookie)
           THEN resp' = Redirect(rq, "/login") /\ UNCHANGED <<store, cachedDb, readyState>>
           ELSE /\ cachedDb' = conn.cachedDb
                /\ readyState' = conn.readyState
                /\ IF ~conn.ok
                     THEN resp' = ConnFailed(rq) /\ UNCHANGED store
                     ELSE IF Throws(id)
                       THEN /\ resp' = Failed(in, "Failed to accept appointment")
                            /\ UNCHANGED store
                       ELSE /\ store' = r.store
                            /\ resp' = Outcome(in, r, TRUE, store[id].status)

\* app.post('/api/requests/:id/reject')
Reject(c, cookie, id) ==
  LET rq   == Req("/api/requests/:id/reject", c, cookie, id)
      conn == connectToDatabase(cachedDb, readyState, dbUp)
      in   == [rq EXCEPT !.connects = conn.connects]
      r    == findByIdAndDelete(store, id)
  IN  /\ UNCHANGED <<fillers, flight, nextId, now, jar, dbUp>>
      /\ IF ~requireAuth(cookie)
           THEN resp' = Redirect(rq, "/login") /\ UNCHANGED <<store, cachedDb, readyState>>
           ELSE /\ cachedDb' = conn.cachedDb
                /\ readyState' = conn.readyState
                /\ IF ~conn.ok
                     THEN resp' = ConnFailed(rq) /\ UNCHANGED store
                     ELSE IF Throws(id)
                       THEN /\ resp' = Failed(in, "Failed to reject appointment")
                            /\ UNCHANGED store
                       ELSE /\ store' = r.store
                            /\ resp' = Outcome(in, r, FALSE, store[id].status)

\* app.post('/api/appointments/:id/done')
Done(c, cookie, id) ==
  LET rq   == Req("/api/appointments/:id/done", c, cookie, id)
      conn == connectToDatabase(cachedDb, readyState, dbUp)
      in   == [rq EXCEPT !.connects = conn.connects]
      r    == findByIdAndUpdate(store, id, "done")
  IN  /\ UNCHANGED <<fillers, flight, nextId, now, jar, dbUp>>
      /\ IF ~requireAuth(cookie)
           THEN resp' = Redirect(rq, "/login") /\ UNCHANGED <<store, cachedDb, readyState>>
           ELSE /\ cachedDb' = conn.cachedDb
                /\ readyState' = conn.readyState
                /\ IF ~conn.ok
                     THEN resp' = ConnFailed(rq) /\ UNCHANGED store
                     ELSE IF Throws(id)
                       THEN /\ resp' = Failed(in, "Failed to mark appointment as done")
                            /\ UNCHANGED store
                       ELSE /\ store' = r.store
                            /\ resp' = Outcome(in, r, TRUE, store[id].status)

\* Appointment.find({ status: 'pending' }).sort({ createdAt: -1 })
PendingList(st, tb) ==
  LET found == find(st, "pending")
  IN  SortIds(found, {p \in found \X found : byCreatedDesc(st, p[1], p[2], tb)})

\* Appointment.find({ status: 'accepted' }).sort({ date: 1, time: 1 })
AcceptedList(st, tb) ==
  LET found == find(st, "accepted")
  IN  SortIds(found, {p \in found \X found : byDateTime(st, p[1], p[2], tb)})

\* Appointment.find({ status: 'done' }).sort({ createdAt: -1 }).limit(50)
RecentList(st, tb) ==
  LET found == find(st, "done")
  IN  limit(SortIds(found, {p \in found \X found : byCreatedDesc(st, p[1], p[2], tb)}),
            RecentLimit)

\* the three listing handlers differ only in the query
ListStep(route, c, cookie, ids, msg) ==
  LET rq   == Req(route, c, cookie, 0)
      conn == connectToDatabase(cachedDb, readyState, dbUp)
      in   == [rq EXCEPT !.connects = conn.connects]
  IN  /\ UNCHANGED <<store, fillers, flight, nextId, now, jar, dbUp>>
      /\ IF ~requireAuth(cookie)
           THEN resp' = Redirect(rq, "/login") /\ UNCHANGED <<cachedDb, readyState>>
           ELSE /\ cachedDb' = conn.cachedDb
                /\ readyState' = conn.readyState
                /\ resp' = IF ~conn.ok THEN ConnFailed(rq)
                           ELSE IF ~dbUp THEN Failed(in, msg)
                           ELSE Listing(in, ids)

\* app.get('/api/requests')
GetRequests(c, cookie, tb) ==
  ListStep("/api/requests", c, cookie, PendingList(Collection(store, fillers), tb),
           "Failed to fetch requests")

\* app.get('/api/appointments')
GetAppointments(c, cookie, tb) ==
  ListStep("/api/appointments", c, cookie,
           AcceptedList(Collection(store, fillers), tb),
           "Failed to fetch appointments")

\* app.get('/api/recent-appointments')
GetRecent(c, cookie, tb) ==
  ListStep("/api/recent-appointments", c, cookie,
           RecentList(Collection(store, fillers), tb),
           "Failed to fetch recent appointments")

(***************************************************************************)
(* Specification                                                           *)
(***************************************************************************)
\* The server is waiting when no response is on its way out.
Waiting == resp = NoResp

\* A request is taken up when the response before it has been read: which
\* response went out last has no part in how the next request is handled.
Next ==
  \/ \E slot \in Slots : CreateAppointment(slot, 1)
  \/ DbDown
  \/ DbUp
  \/ \E c \in Clients : ExpireCookie(c)
  \/ EndResponse
  \/ Waiting /\ \E c \in Clients, cookie \in CookieValues : GetLogin(c, cookie)
  \/ Waiting /\ \E route \in PageRoutes, c \in Clients, cookie \in CookieValues :
        GetPage(route, c, cookie)
  \/ Waiting /\ \E c \in Clients : PostLogout(c)
  \/ Waiting /\ \E c \in Clients, cred \in LoginInputs :
        PostLogin(c, cred[1], cred[2])
  \/ Waiting /\ \E c \in Clients, cookie \in CookieValues, id \in ReqIds :
        Accept(c, cookie, id)
  \/ Waiting /\ \E c \in Clients, cookie \in CookieValues, id \in ReqIds :
        Reject(c, cookie, id)
  \/ Waiting /\ \E c \in Clients, cookie \in CookieValues, id \in ReqIds :
        Done(c, cookie, id)
  \/ Waiting /\ \E c \in Clients, cookie \in CookieValues, tb \in TieBreaks :
        GetRequests(c, cookie, tb)
  \/ Waiting /\ \E c \in Clients, cookie \in CookieValues, tb \in TieBreaks :
        GetAppointments(c, cookie, tb)
  \/ Waiting /\ \E c \in Clients, cookie \in CookieValues, tb \in TieBreaks :
        GetRecent(c, cookie, tb)

Spec == Init /\ [][Next]_vars

(***************************************************************************)
(* The same server on a collection that already holds RecentLimit          *)
(* completed appointments, used by one admin with a valid session flag     *)
(* over a storage connection that stays up; one request follows another.   *)
(***************************************************************************)
InitArchive ==
  /\ fillers \in {0, RecentLimit}
  /\ \E old \in {-1} \cup OldTimes :
       /\ store = [id \in ActiveIds |->
                     IF id = 1 /\ old >= 0 THEN NewDoc(<<1, "10:00">>, old)
                                           ELSE NoDoc]
       /\ nextId = IF old >= 0 THEN 2 ELSE 1
  /\ now = StartTime
  /\ jar = [c \in Clients |-> "absent"]
  /\ cachedDb = TRUE /\ readyState = 1 /\ dbUp = TRUE
  /\ resp = NoResp
  /\ flight = NoFlights

NextArchive ==
  \/ \E slot \in Slots, adv \in {0, 1} : CreateAppointment(slot, adv)
  \/ \E id \in ReqIds : Accept(1, "true", id)
  \/ \E id \in ReqIds : Reject(1, "true", id)
  \/ \E id \in ReqIds : Done(1, "true", id)
  \/ \E tb \in TieBreaks : GetRequests(1, "true", tb)
  \/ \E tb \in TieBreaks : GetAppointments(1, "true", tb)
  \/ \E tb \in TieBreaks : GetRecent(1, "true", tb)

SpecArchive == InitArchive /\ [][NextArchive]_vars

(***************************************************************************)
(* The same server with an appointment book over two days, whose time      *)
(* slots are written as the submission form sends them, used by one admin  *)
(* with a valid session flag over a storage connection that stays up.      *)
(***************************************************************************)
InitAgenda ==
  /\ fillers = 0
  /\ store = [id \in ActiveIds |-> NoDoc]
  /\ nextId = 1
  /\ now = StartTime
  /\ jar = [c \in Clients |-> "absent"]
  /\ cachedDb = TRUE /\ readyState = 1 /\ dbUp = TRUE
  /\ resp = NoResp
  /\ flight = NoFlights

NextAgenda ==
  \/ \E slot \in AgendaSlots : CreateAppointment(slot, 1)
  \/ EndResponse
  \/ Waiting /\ \E id \in ActiveIds : Accept(1, "true", id)
  \/ Waiting /\ \E id \in ActiveIds : Reject(1, "true", id)
  \/ Waiting /\ \E id \in ActiveIds : Done(1, "true", id)
  \/ Waiting /\ \E tb \in TieBreaks : GetAppointments(1, "true", tb)

SpecAgenda == InitAgenda /\ [][NextAgenda]_vars

(***************************************************************************)
(* Requests in flight.  A handler is async: it awaits the connection and   *)
(* then its one store operation, and other requests run while it waits.    *)
(* An accept and a reject pass, step by step, requireAuth, then            *)
(* ensureDbConnection, then the store operation (atomic in the store),     *)
(* then the response, while appointments are submitted and completed and   *)
(* the storage may become unreachable.                                     *)
(***************************************************************************)
\* the place of the next store operation among those of the flights
NextOrder ==
  LET used == {flight[route].order : route \in RaceRoutes}
  IN  1 + CHOOSE m \in used : \A o \in used : o <= m

\* another request is under way while the one of route runs
Overlapped(route) ==
  \E other \in RaceRoutes \ {route} : flight[other].pc \notin {"idle", "replied"}

\* the request arrives with the session flag and passes requireAuth
Receive(route, id) ==
  /\ flight[route].pc = "idle"
  /\ requireAuth("true")
  /\ flight' = [flight EXCEPT ![route] = [IdleFlight EXCEPT !.id = id, !.pc = "auth"]]
  /\ resp' = NoResp
  /\ UNCHANGED <<store, fillers, nextId, now, jar, dbVars>>

\* ensureDbConnection: await connectToDatabase(), then next() or 500
ensureDbConnection(route) ==
  LET f    == flight[route]
      conn == connectToDatabase(cachedDb, readyState, dbUp)
      rq   == [Req(route, 1, "true", f.id) EXCEPT !.connects = conn.connects]
  IN  /\ f.pc = "auth"
      /\ cachedDb' = conn.cachedDb
      /\ readyState' = conn.readyState
      /\ IF conn.ok
           THEN /\ flight' = [flight EXCEPT ![route].pc = "handler",
                                            ![route].connects = conn.connects]
                /\ resp' = NoResp
           ELSE /\ flight' = [flight EXCEPT ![route].pc = "replied",
                                            ![route].connects = conn.connects,
                                            ![route].code = 500]
                /\ resp' = ConnFailed(rq)
      /\ UNCHANGED <<store, fillers, nextId, now, jar, dbUp>>

\* await Appointment.findByIdAndUpdate(...) / findByIdAndDelete(...): the
\* store applies the operation in one step, or the call throws
StoreOperation(route) ==
  LET f == flight[route]
      r == CASE route = "/api/requests/:id/accept" ->
                  findByIdAndUpdate(store, f.id, "accepted")
             [] route = "/api/requests/:id/reject" ->
                  findByIdAndDelete(store, f.id)
  IN  /\ f.pc = "handler"
      /\ IF Throws(f.id)
           THEN /\ flight' = [flight EXCEPT ![route].pc = "stored",
                                            ![route].threw = TRUE,
                                            ![route].met = Overlapped(route),
                                            ![route].order = NextOrder]
                /\ UNCHANGED store
           ELSE /\ flight' = [flight EXCEPT ![route].pc = "stored",
                                            ![route].doc = r.doc,
                                            ![route].prior = store[f.id].status,
                                            ![route].met = Overlapped(route),
                                            ![route].order = NextOrder]
                /\ store' = r.store
      /\ resp' = NoResp
      /\ UNCHANGED <<fillers, nextId, now, jar, dbVars>>

\* the handler resumes after its await and sends the response
Respond(route) ==
  LET f  == flight[route]
      rq == [Req(route, 1, "true", f.id) EXCEPT !.connects = f.connects]
      rs == IF f.threw THEN Failed(rq, "Failed")
            ELSE Outcome(rq, [doc |-> f.doc], route # "/api/requests/:id/reject",
                         f.prior)
  IN  /\ f.pc = "stored"
      /\ resp' = rs
      /\ flight' = [flight EXCEPT ![route].pc = "replied", ![route].code = rs.code]
      /\ UNCHANGED <<store, fillers, nextId, now, jar, dbVars>>

NextRace ==
  \/ \E slot \in Slots : CreateAppointment(slot, 1)
  \/ DbDown
  \/ \E id \in ActiveIds : Done(1, "true", id)
  \/ \E route \in RaceRoutes, id \in ActiveIds : Receive(route, id)
  \/ \E route \in RaceRoutes : ensureDbConnection(route)
  \/ \E route \in RaceRoutes : StoreOperation(route)
  \/ \E route \in RaceRoutes : Respond(route)

SpecRace == Init /\ [][NextRace]_vars

TypeOK ==
  /\ fillers \in {0, RecentLimit}
  /\ store \in [ActiveIds -> [status : StatusEnum \cup {"none"}, createdAt : Nat,
                           date : Nat, time : STRING, name : STRING]]
  /\ DOMAIN flight = RaceRoutes
  /\ \A route \in RaceRoutes :
       flight[route].pc \in {"idle", "auth", "handler", "stored", "replied"}
  /\ nextId \in 1..(NumActive + 1)
  /\ jar \in [Clients -> {"absent", "true"}]
  /\ readyState \in {0, 1}

(***************************************************************************)
(* Vocabulary of the properties                                            *)
(***************************************************************************)
Accepting == "/api/requests/:id/accept"

Rejecting == "/api/requests/:id/reject"

Completing == "/api/appointments/:id/done"

Recent == "/api/recent-appointments"

\* the username/password pairs of the configuration
ConfiguredPairs == {<<"admin1", "password1">>, <<"admin2", "password2">>}

\* status edges of the lifecycle; "none" is the deleted record
LegalEdges ==
  {<<"pending", "accepted">>, <<"accepted", "done">>, <<"pending", "none">>}

\* the storage connection can be had: a cached handle is ready or the server
\* is reachable
Connectable == (cachedDb /\ readyState = 1) \/ dbUp

\* ids whose record was stored once and has been removed since
Removed == {id \in ActiveIds : id < nextId /\ store[id] = NoDoc}

StatusIds(status) ==
  {id \in AllIds : Collection(store, fillers)[id].status = status}

CreatedAt(id) == Collection(store, fillers)[id].createdAt

NoDuplicates(seq) == Cardinality(Range(seq)) = Len(seq)

(***************************************************************************)
(* C1: the stored status of an appointment only ever changes pending ->    *)
(* accepted or accepted -> done, and a record is only deleted while it is  *)
(* pending.                                                                *)
(***************************************************************************)
C1_ForwardOnly ==
  [][\A id \in ActiveIds :
       (store[id] # NoDoc /\ store'[id].status # store[id].status)
         => <<store[id].status, store'[id].status>> \in LegalEdges]_vars

(***************************************************************************)
(* C2: on every protected route a request whose isLoggedIn cookie is not   *)
(* exactly "true" is redirected to /login without reaching the handler:    *)
(* no connect is attempted, nothing is read and the store and the          *)
(* connection are as before; a request whose cookie is "true" is not       *)
(* redirected and reaches the handler (for an API route: unless the        *)
(* connection middleware in front of it fails).                            *)
(***************************************************************************)
C2_Gate ==
  [][resp'.route \in ProtectedRoutes =>
       IF resp'.cookie = "true"
         THEN /\ resp'.code # 302
              /\ resp'.handler \/ resp'.payload = "Database connection failed"
         ELSE /\ resp'.code = 302 /\ resp'.location = "/login"
              /\ ~resp'.handler /\ resp'.connects = 0 /\ resp'.body = <<>>
              /\ UNCHANGED <<store, fillers, nextId, cachedDb, readyState, jar>>]_vars

\* a reject of an existing record sent with the cookie value "TRUE" bounced
C2_Witness ==
  /\ resp.route = Rejecting /\ resp.cookie = "TRUE" /\ resp.code = 302
  /\ Exists(store, resp.id)

(***************************************************************************)
(* C3: a request is admitted to a protected route only if the session flag *)
(* it carries was issued to its client by a successful login and has not   *)
(* been cleared since.                                                     *)
(***************************************************************************)
C3_OnlyIssuedSessions ==
  [][(resp'.route \in ProtectedRoutes /\ resp'.code # 302)
       => jar[resp'.client] = "true"]_vars

(***************************************************************************)
(* C4: an authenticated accept, reject or complete of an id that has no    *)
(* stored record returns 404 and leaves the store as it was (the storage   *)
(* being reachable).                                                       *)
(***************************************************************************)
C4_MissingIs404 ==
  [][(/\ resp'.route \in MutateRoutes /\ resp'.cookie = "true"
      /\ ~Exists(store, resp'.id) /\ dbUp)
       => resp'.code = 404 /\ store' = store]_vars

(***************************************************************************)
(* C5 as stated: whatever the state of the storage connection, a login     *)
(* with a configured pair sets the cookie and succeeds, and any other      *)
(* login is answered 401 without a cookie.                                 *)
(***************************************************************************)
C5_LoginAlways ==
  resp.route = "/login" =>
    IF <<resp.username, resp.password>> \in ConfiguredPairs
      THEN resp.code = 200 /\ resp.setCookie = "set" /\ jar[resp.client] = "true"
      ELSE resp.code = 401 /\ resp.setCookie = "none"

(***************************************************************************)
(* C5 amended: when the storage connection can be had, a login with a      *)
(* configured pair sets the cookie and succeeds and any other login is     *)
(* answered 401 without a cookie; when it cannot, every login is answered  *)
(* 500 and no cookie is set.                                               *)
(***************************************************************************)
C5_LoginWhenConnected ==
  [][resp'.route = "/login" =>
       IF ~Connectable
         THEN resp'.code = 500 /\ resp'.setCookie = "none" /\ jar' = jar
         ELSE IF <<resp'.username, resp'.password>> \in ConfiguredPairs
           THEN /\ resp'.code = 200 /\ resp'.payload = "success"
                /\ resp'.setCookie = "set" /\ jar'[resp'.client] = "true"
           ELSE /\ resp'.code = 401 /\ resp'.setCookie = "none" /\ jar' = jar]_vars

\* a login with the second configured pair succeeded over a fresh connection
C5_Witness ==
  /\ resp.route = "/login" /\ resp.username = "admin2" /\ resp.code = 200
  /\ resp.connects = 1 /\ jar[resp.client] = "true"

(***************************************************************************)
(* C6: logout needs no session, always answers success and clears the      *)
(* client's session cookie; the cookie stays cleared until that client     *)
(* logs in again, and until then every request it sends to a protected     *)
(* route with its cookie store is redirected to /login.                    *)
(***************************************************************************)
C6_Logout ==
  [][\A c \in Clients :
       /\ (resp'.route = "/logout" /\ resp'.client = c)
            => /\ resp'.code = 200 /\ resp'.payload = "success"
               /\ jar'[c] = "absent"
       /\ (jar[c] = "absent" /\ jar'[c] = "true")
            => resp'.route = "/login" /\ resp'.client = c /\ resp'.code = 200
       /\ (/\ resp'.route \in ProtectedRoutes /\ resp'.client = c
           /\ jar[c] = "absent" /\ resp'.cookie = jar[c])
            => resp'.code = 302 /\ resp'.location = "/login"]_vars

\* a client that held the session flag has just logged out
C6_Witness ==
  /\ resp.route = "/logout" /\ resp.cookie = "true" /\ resp.code = 200
  /\ jar[resp.client] = "absent"

\* an authenticated accept (complete) of a pending (accepted) record, served
\* while the storage is reachable, answers 200 with the new status
AcceptThenDone ==
  /\ (/\ resp'.route = Accepting /\ resp'.cookie = "true" /\ dbUp
      /\ Exists(store, resp'.id) /\ store[resp'.id].status = "pending")
       => /\ resp'.code = 200 /\ resp'.appointment.status = "accepted"
          /\ store'[resp'.id].status = "accepted"
  /\ (/\ resp'.route = Completing /\ resp'.cookie = "true" /\ dbUp
      /\ Exists(store, resp'.id) /\ store[resp'.id].status = "accepted")
       => /\ resp'.code = 200 /\ resp'.appointment.status = "done"
          /\ store'[resp'.id].status = "done"

\* done records other than id that were created no earlier than id
NotOlder(id) ==
  {x \in StatusIds("done") \ {id} : CreatedAt(x) >= CreatedAt(id)}

C8_RejectedStaysGone ==
  [][\A id \in Removed :
       /\ store'[id] = NoDoc
       /\ resp'.route \in ListRoutes => id \notin Range(resp'.body)
       /\ (/\ resp'.route \in MutateRoutes /\ resp'.id = id
           /\ resp'.cookie = "true" /\ dbUp)
            => resp'.code = 404 /\ store' = store]_vars

\* an accept of the id of a rejected request was answered 404
C8_Witness ==
  /\ resp.route = Accepting /\ resp.code = 404 /\ resp.id \in Removed

(***************************************************************************)
(* C9: GET /api/requests returns exactly the pending records and GET       *)
(* /api/appointments exactly the accepted ones, each once, and no stored   *)
(* appointment is in more than one of the three listings.                  *)
(***************************************************************************)
C9_ListingsByStatus ==
  /\ (resp.route = "/api/requests" /\ resp.code = 200)
       => Range(resp.body) = StatusIds("pending") /\ NoDuplicates(resp.body)
  /\ (resp.route = "/api/appointments" /\ resp.code = 200)
       => Range(resp.body) = StatusIds("accepted") /\ NoDuplicates(resp.body)
  /\ \A tb \in TieBreaks :
       LET col == Collection(store, fillers)
           p   == Range(PendingList(col, tb))
           a   == Range(AcceptedList(col, tb))
           d   == Range(RecentList(col, tb))
       IN  p \cap a = {} /\ p \cap d = {} /\ a \cap d = {}

\* the pending listing was served while another record is accepted or done
C9_Witness ==
  /\ resp.route = "/api/requests" /\ resp.code = 200 /\ Len(resp.body) = 1
  /\ \E id \in ActiveIds : store[id].status \in {"accepted", "done"}

RECURSIVE Numeral(_)
Numeral(ds) ==
  IF ds = <<>> THEN 0
  ELSE 10 * Numeral(SubSeq(ds, 1, Len(ds) - 1)) + (ds[Len(ds)] - 48)

\* minutes after midnight of a clock time written "H:MM" or "HH:MM"
ClockMinutes(t) ==
  LET u == CodeUnits(t)
      p == CHOOSE i \in 1..Len(u) : u[i] = 58
  IN  60 * Numeral(SubSeq(u, 1, p - 1)) + Numeral(SubSeq(u, p + 1, Len(u)))

\* appointment a is not later than appointment b
NotLater(a, b) ==
  \/ store[a].date < store[b].date
  \/ /\ store[a].date = store[b].date
     /\ ClockMinutes(store[a].time) <= ClockMinutes(store[b].time)

(***************************************************************************)
(* C11: the result of GET /api/appointments is in ascending order of date  *)
(* and, for equal dates, of time of day, so that no appointment is listed  *)
(* after a later one: the soonest comes first.                             *)
(***************************************************************************)
C11_SoonestFirst ==
  (resp.route = "/api/appointments" /\ resp.code = 200) =>
    \A i, j \in 1..Len(resp.body) :
      i < j => NotLater(resp.body[i], resp.body[j])

\* the mutation a route asks for is in the store after the step
Applied(route, id) ==
  CASE route = Accepting  -> store'[id].status = "accepted"
    [] route = Rejecting  -> store'[id] = NoDoc
    [] route = Completing -> store'[id].status = "done"
    [] OTHER              -> FALSE

(***************************************************************************)
(* C12: every authenticated accept, reject and complete is answered once,  *)
(* by its handler or by the connection middleware, with 200, 404 or 500:   *)
(* 500 with a generic message and an unchanged store exactly when the      *)
(* storage cannot be reached, and otherwise 200 with a success payload and *)
(* the mutation applied exactly when a record with the id existed, and 404 *)
(* exactly when none did.                                                  *)
(***************************************************************************)
C12_OutcomeByCase ==
  [][(resp'.route \in MutateRoutes /\ resp'.cookie = "true") =>
       /\ resp'.code \in {200, 404, 500}
       /\ resp'.handler \/ resp'.payload = "Database connection failed"
       /\ resp'.code = 500 <=> ~dbUp
       /\ resp'.code = 500 => store' = store /\ resp'.payload # "success"
       /\ resp'.code = 200 <=> (dbUp /\ Exists(store, resp'.id))
       /\ resp'.code = 200 => resp'.payload = "success" /\ Applied(resp'.route, resp'.id)
       /\ resp'.code = 404 <=> (dbUp /\ ~Exists(store, resp'.id))]_vars

(***************************************************************************)
(* C13: an authenticated reject of the id of a stored record, whatever its *)
(* status, removes the record and answers success (the storage being       *)
(* reachable); a reject is answered 404 only when no record has the id.    *)
(***************************************************************************)
C13_RejectAnyStatus ==
  [][(resp'.route = Rejecting /\ resp'.cookie = "true") =>
       /\ (dbUp /\ Exists(store, resp'.id))
            => /\ store[resp'.id].status \in StatusEnum
               /\ resp'.code = 200 /\ resp'.payload = "success"
               /\ store'[resp'.id] = NoDoc
       /\ resp'.code = 404 => ~Exists(store, resp'.id)]_vars

\* the reject of a completed appointment succeeded and the record is gone
C13_Witness ==
  /\ resp.route = Rejecting /\ resp.code = 200 /\ resp.prior = "done"
  /\ store[resp.id] = NoDoc

\* the accept and the reject in flight
TheAccept == flight[Accepting]

TheReject == flight[Rejecting]

\* both have been answered, neither by a storage failure, they named the
\* same id, and the record was there for the first of the two operations
RaceOver ==
  /\ TheAccept.pc = "replied" /\ TheReject.pc = "replied"
  /\ TheAccept.id = TheReject.id
  /\ TheAccept.code # 500 /\ TheReject.code # 500
  /\ IF TheAccept.order < TheReject.order
       THEN TheAccept.prior # "none" ELSE TheReject.prior # "none"

(***************************************************************************)
(* C14: when an authenticated accept and an authenticated reject of the    *)
(* same stored appointment are in flight together, then whichever store    *)
(* operation comes first, once both are answered the record is gone, the   *)
(* reject was answered 200, and the accept was answered 200 if its         *)
(* operation came first and 404 if it came second (the storage being       *)
(* reachable): no accepted record is left behind.                          *)
(***************************************************************************)
C14_RejectWinsRace ==
  RaceOver =>
    /\ store[TheReject.id] = NoDoc
    /\ TheReject.code = 200
    /\ TheAccept.code = IF TheAccept.order < TheReject.order THEN 200 ELSE 404

\* each store operation ran while the other request was under way, the
\* reject's first, and both requests have been answered
C14_Witness ==
  /\ RaceOver
  /\ TheReject.met /\ TheAccept.met
  /\ TheReject.order = 1 /\ TheAccept.order = 2 /\ TheAccept.code = 404
  /\ resp.route = Accepting /\ resp.code = 404

\* the request of a response passed requireAuth (where the route has it) on
\* a route that has ensureDbConnection in front of its handler
ViaConnection(rs) ==
  \/ rs.route = "/login"
  \/ rs.route \in ListRoutes \cup MutateRoutes /\ rs.cookie = "true"

(***************************************************************************)
(* C15: a request that arrives while a handle is cached and the connection *)
(* is ready issues no connect and is not failed by the middleware; a       *)
(* request that arrives otherwise makes exactly one connect attempt: if    *)
(* the storage is reachable the handle is cached and the handler runs, if  *)
(* not the request is answered 500 by the middleware, its handler does not *)
(* run, the store and the cached handle are as before, and the connection  *)
(* is still not ready, so that the next request attempts to connect again. *)
(***************************************************************************)
C15_LazyConnect ==
  [][ViaConnection(resp') =>
       IF cachedDb /\ readyState = 1
         THEN /\ resp'.connects = 0 /\ resp'.handler
              /\ cachedDb' = cachedDb /\ readyState' = readyState
         ELSE /\ resp'.connects = 1
              /\ IF dbUp
                   THEN resp'.handler /\ cachedDb' /\ readyState' = 1
                   ELSE /\ resp'.code = 500
                        /\ resp'.payload = "Database connection failed"
                        /\ ~resp'.handler
                        /\ cachedDb' = cachedDb /\ store' = store /\ jar' = jar
                        /\ ~(cachedDb' /\ readyState' = 1)]_vars

\* a connect attempt has just failed and the stale handle is still cached
C15_Witness ==
  /\ resp.route \in MutateRoutes /\ resp.code = 500 /\ resp.connects = 1
  /\ resp.payload = "Database connection failed"
  /\ cachedDb /\ readyState = 0

\* ids of the records of the active store
Stored(st) == {id \in ActiveIds : st[id] # NoDoc}

(***************************************************************************)
(* C16: a successful accept or complete sets the status of the record with *)
(* the id and changes nothing else: the record keeps its id and its other  *)
(* fields, every other record is as before and so is the number of stored  *)
(* records; a successful reject removes the record with the id and leaves  *)
(* every other record as it was.                                           *)
(***************************************************************************)
C16_OnlyStatusChanges ==
  [][/\ (resp'.route \in {Accepting, Completing} /\ resp'.code = 200) =>
          /\ Exists(store, resp'.id)
          /\ store'[resp'.id].status =
                (IF resp'.route = Accepting THEN "accepted" ELSE "done")
          /\ \A fld \in {"name", "date", "time", "createdAt"} :
                store'[resp'.id][fld] = store[resp'.id][fld]
          /\ \A id \in ActiveIds \ {resp'.id} : store'[id] = store[id]
          /\ Stored(store') = Stored(store)
          /\ fillers' = fillers /\ nextId' = nextId
     /\ (resp'.route = Rejecting /\ resp'.code = 200) =>
          /\ Exists(store, resp'.id)
          /\ Stored(store') = Stored(store) \ {resp'.id}
          /\ \A id \in ActiveIds \ {resp'.id} : store'[id] = store[id]
          /\ fillers' = fillers /\ nextId' = nextId]_vars

\* an accept succeeded while another appointment is stored
C16_Witness ==
  /\ resp.route = Accepting /\ resp.code = 200
  /\ store[resp.id].status = "accepted" /\ store[resp.id].name = "customer"
  /\ \E id \in ActiveIds \ {resp.id} : store[id] # NoDoc

(***************************************************************************)
(* C17: every stored appointment has a status among pending, accepted and  *)
(* done at all times; a record that enters the store starts as pending;    *)
(* and a request only ever writes accepted (the accept route) or done (the *)
(* complete route) as a status: a rejected record is removed, not marked.  *)
(***************************************************************************)
C17_StatusInEnum ==
  /\ [](\A id \in AllIds :
          LET doc == Collection(store, fillers)[id]
          IN  doc # NoDoc => doc.status \in {"pending", "accepted", "done"})
  /\ [][\A id \in ActiveIds :
          /\ (store[id] = NoDoc /\ store'[id] # NoDoc)
               => store'[id].status = "pending" /\ resp' = NoResp
          /\ (store'[id] # NoDoc /\ store'[id].status # store[id].status
               /\ resp' # NoResp)
               => \/ resp'.route = Accepting /\ store'[id].status = "accepted"
                  \/ resp'.route = Completing /\ store'[id].status = "done"]_vars

\* a complete has just written done while another record is pending
C17_Witness ==
  /\ resp.route = Completing /\ resp.code = 200
  /\ store[resp.id].status = "done"
  /\ \E id \in ActiveIds : store[id].status = "pending"

====
